---- MODULE Spec2Model ----
(***************************************************************************)
(* Egyptian licence-plate recognition: the two-stage detection-and-        *)
(* assembly pipeline of src/api/lpr_service.py and the service of          *)
(* src/api/main.py that calls it.                                          *)
(*                                                                         *)
(* Representation of the Python values:                                    *)
(*   - a str of plate text is the sequence of its Unicode codepoints       *)
(*     (" " is 32, "?" is 63), so that joining and splitting are real;     *)
(*   - a float is an exact rational [num, den] in lowest terms (the        *)
(*     rounding of float32 arithmetic is not modelled);                    *)
(*   - a detection confidence is given in hundredths (90 is 0.90);         *)
(*   - a plate box coordinate is given in tenths of a pixel (15 is 1.5),   *)
(*     so that astype(int) truncates something;                            *)
(*   - an ndarray image is a record of its shape, the region of the        *)
(*     source image whose pixels it shows, and what was drawn on it;       *)
(*   - None and exceptions are records told apart by their kind field.     *)
(***************************************************************************)
EXTENDS Integers, Sequences, FiniteSets, TLC

VARIABLES
    argsort_ties,     \* tie order of this build's np.argsort (default kind is not stable)
    pc,               \* position inside process_image_array
    image,            \* process_image_array: parameter image
    result,           \* process_image_array: local result (the dict returned)
    lp_crop,          \* process_image_array: local lp_crop
    lp_detections,    \* process_image_array: local lp_detections
    plate_text,       \* process_image_array: local plate_text
    confidence,       \* process_image_array: local confidence
    ocr_detections,   \* process_image_array: local ocr_detections
    is_valid,         \* recognize_characters: local is_valid
    exc,              \* exception that left process_image_array, or None
    lp_calls,         \* number of invocations of self.lp_model
    ocr_calls,        \* number of invocations of self.ocr_model in this call
    helper_calls,     \* recognize_characters: the helpers it ran in this call, in order
    lp_model,         \* self.lp_model: what the loaded weights answered, per input seen
    ocr_model,        \* self.ocr_model: what the loaded weights answered, per input seen
    calls,            \* number of process_image_array calls begun on this recognizer
    first,            \* what the first call returned or raised, kept for comparison
    arg,              \* function-level check: the input of the call
    ret,              \* function-level check: the function applied and what it returned
    files,            \* main.py: the weight files that exist on disk
    started,          \* main.py: lifespan has run its startup part
    recognizer,       \* main.py: global recognizer
    constructed,      \* main.py: number of LicensePlateRecognizer objects constructed
    requests,         \* main.py: the recognize_plate coroutines, one record each
    running           \* main.py: the coroutine holding the event loop, or 0

pipeline_vars == <<pc, image, result, lp_crop, lp_detections, plate_text, confidence,
                   ocr_detections, is_valid, exc, lp_calls, ocr_calls, helper_calls,
                   lp_model, ocr_model>>

repeat_vars == <<calls, first>>

api_vars == <<files, started, recognizer, constructed, requests, running>>

vars == <<argsort_ties, pipeline_vars, repeat_vars, arg, ret, api_vars>>

(***************************************************************************)
(* Bounds of the model.                                                    *)
(***************************************************************************)
\* longest plate-detection output enumerated
MaxPlates == 3
\* longest character-detection output enumerated for the function-level checks
MaxChars == 3
\* longest OCR output enumerated in the pipeline (one past the largest valid count)
MaxOcr == 8

(***************************************************************************)
(* Python values.                                                          *)
(***************************************************************************)
None == [kind |-> "None"]

Str(s) == [kind |-> "str", val |-> s]

Raised(type, msg) == [kind |-> "exception", type |-> type, msg |-> msg]

RECURSIVE GCD(_, _)
GCD(a, b) == IF b = 0 THEN a ELSE GCD(b, a % b)

Abs(n) == IF n < 0 THEN -n ELSE n

\* the float n/d, d > 0
Float(n, d) ==
    LET g == IF n = 0 THEN d ELSE GCD(Abs(n), d)
    IN  [num |-> n \div g, den |-> d \div g]

FloatLess(a, b) == a.num * b.den < b.num * a.den

Min(a, b) == IF a < b THEN a ELSE b

Max(a, b) == IF a > b THEN a ELSE b

RECURSIVE SumSeq(_)
SumSeq(s) == IF Len(s) = 0 THEN 0 ELSE Head(s) + SumSeq(Tail(s))

Reverse(s) == [i \in 1..Len(s) |-> s[Len(s) + 1 - i]]

\* ndarray of shape (h, w, 3) showing region <<x0, y0, x1, y1>> of the source image
NdArray(h, w, region, drawn) ==
    [kind |-> "ndarray", h |-> h, w |-> w, region |-> region, drawn |-> drawn]

(***************************************************************************)
(* Character map.                                                          *)
(***************************************************************************)
ARABIC_MAPPING ==
    "a" :> 1571 @@ "b" :> 1576 @@ "kk" :> 1602 @@ "ss" :> 1589 @@ "s" :> 1587 @@
    "tt" :> 1591 @@ "o" :> 1593 @@ "l" :> 1604 @@ "r" :> 1585 @@ "n" :> 1606 @@
    "m" :> 1605 @@ "00" :> 1607 @@ "w" :> 1608 @@ "y" :> 1609 @@ "g" :> 1580 @@
    "d" :> 1583 @@ "f" :> 1601 @@ "1" :> 1633 @@ "2" :> 1634 @@ "3" :> 1635 @@
    "4" :> 1636 @@ "5" :> 1637 @@ "6" :> 1638 @@ "7" :> 1639 @@ "8" :> 1640 @@
    "9" :> 1641 @@ "0" :> 1632

\* mutant: the default of the lookup is the empty str
map_prediction_default_empty(letter) ==
    IF letter \in DOMAIN ARABIC_MAPPING
    THEN <<ARABIC_MAPPING[letter]>>
    ELSE <<>>

\* dict.get(letter, "?"): a str of one codepoint
map_prediction_to_arabic(letter) ==
    IF letter \in DOMAIN ARABIC_MAPPING
    THEN <<ARABIC_MAPPING[letter]>>
    ELSE <<63>>

(***************************************************************************)
(* Text assembly, validity gate, confidence.                               *)
(***************************************************************************)
\* sep.join(parts)
RECURSIVE str_join(_, _)
str_join(sep, parts) ==
    IF Len(parts) = 0 THEN <<>>
    ELSE IF Len(parts) = 1 THEN parts[1]
    ELSE parts[1] \o sep \o str_join(sep, Tail(parts))

\* mutant: no sort, the indices in input order
np_argsort_input_order(xs) == [k \in 1..Len(xs) |-> k]

\* np.argsort(xs): the indices that sort xs ascending.  The default kind
\* ("quicksort") is not a stable sort, so the order of equal keys is a property
\* of the build: ascending index (what a stable sort gives) or descending index.
np_argsort(xs) ==
    LET n == Len(xs)
        Before(i, j) ==
            \/ xs[i] < xs[j]
            \/ /\ xs[i] = xs[j]
               /\ IF argsort_ties = "ascending" THEN i < j ELSE i > j
        Rank(i) == 1 + Cardinality({j \in 1..n : Before(j, i)})
    IN  <<>> \o [k \in 1..n |-> CHOOSE i \in 1..n : Rank(i) = k]

\* mutant: the [::-1] is missing, the text reads left to right
get_sorted_left_to_right(detections) ==
    IF Len(detections) = 0 THEN <<>>
    ELSE LET right_x_coords == [i \in 1..Len(detections) |-> detections[i].xyxy[3]]
             sorted_indices == np_argsort(right_x_coords)
             arabic_chars ==
                 [k \in 1..Len(detections) |->
                     map_prediction_to_arabic(detections[sorted_indices[k]].class_name)]
         IN  str_join(<<32>>, arabic_chars)

\* mutant: a stable descending sort, detections sharing an x_max kept in input order
get_sorted_ties_in_input_order(detections) ==
    LET n == Len(detections)
        sorted_indices ==
            CHOOSE p \in Permutations(1..n) :
                \A k, l \in 1..n :
                    k < l => \/ detections[p[k]].xyxy[3] > detections[p[l]].xyxy[3]
                             \/ /\ detections[p[k]].xyxy[3] = detections[p[l]].xyxy[3]
                                /\ p[k] < p[l]
        arabic_chars ==
            [k \in 1..n |-> map_prediction_to_arabic(detections[sorted_indices[k]].class_name)]
    IN  str_join(<<32>>, arabic_chars)

get_sorted_class_names_in_arabic(detections) ==
    IF Len(detections) = 0 THEN <<>>
    ELSE LET right_x_coords == [i \in 1..Len(detections) |-> detections[i].xyxy[3]]
             sorted_indices == Reverse(np_argsort(right_x_coords))
             sorted_class_names ==
                 [k \in 1..Len(detections) |-> detections[sorted_indices[k]].class_name]
             arabic_chars ==
                 [k \in 1..Len(detections) |-> map_prediction_to_arabic(sorted_class_names[k])]
         IN  str_join(<<32>>, arabic_chars)

\* mutant: any count from 6 up passes
check_validity_at_least_six(detections) == Len(detections) >= 6

check_license_plate_validity(detections) ==
    LET num_detections == Len(detections)
    IN  num_detections \in {6, 7}

\* mutant: the best confidence instead of the mean
get_conf_level_max(detections) ==
    IF Len(detections) = 0 THEN Float(0, 1)
    ELSE Float(CHOOSE c \in {detections[i].confidence : i \in 1..Len(detections)} :
                   \A i \in 1..Len(detections) : detections[i].confidence <= c,
               100)

get_conf_level(detections) ==
    IF Len(detections) = 0 THEN Float(0, 1)
    ELSE Float(SumSeq([i \in 1..Len(detections) |-> detections[i].confidence]),
               100 * Len(detections))

(***************************************************************************)
(* Plate localizer.                                                        *)
(***************************************************************************)
RECURSIVE argmax_scan(_, _, _)
argmax_scan(values, i, best) ==
    IF i > Len(values) THEN best
    ELSE argmax_scan(values, i + 1, IF values[i] > values[best] THEN i ELSE best)

RECURSIVE argmax_scan_last(_, _, _)
argmax_scan_last(values, i, best) ==
    IF i > Len(values) THEN best
    ELSE argmax_scan_last(values, i + 1, IF values[i] >= values[best] THEN i ELSE best)

\* mutant: the last index that holds the maximum
np_argmax_last(values) == argmax_scan_last(values, 2, 1)

\* np.argmax(values): the first index that holds the maximum
np_argmax(values) == argmax_scan(values, 2, 1)

\* ndarray.astype(int) of a coordinate in tenths: truncation towards zero
astype_int(v) == IF v >= 0 THEN v \div 10 ELSE -((-v) \div 10)

\* the indices start:stop of a slice of a dimension of length n
slice_indices(start, stop, n) ==
    LET norm(k) == IF k < 0 THEN Max(k + n, 0) ELSE Min(k, n)
    IN  <<norm(start), Max(norm(stop), norm(start))>>

\* img[y_min:y_max, x_min:x_max].copy()
ndarray_crop(img, x_min, y_min, x_max, y_max) ==
    LET xs == slice_indices(x_min, x_max, img.w)
        ys == slice_indices(y_min, y_max, img.h)
    IN  NdArray(ys[2] - ys[1], xs[2] - xs[1],
                <<img.region[1] + xs[1], img.region[2] + ys[1],
                  img.region[1] + xs[2], img.region[2] + ys[2]>>,
                img.drawn)

\* mutant: the guard on an empty set is missing, np.argmax of nothing raises
detect_license_plate_unguarded(img, detections) ==
    IF Len(detections) = 0
    THEN <<Raised("ValueError", "attempt to get argmax of an empty sequence"), detections>>
    ELSE LET best_idx == np_argmax([i \in 1..Len(detections) |-> detections[i].confidence])
             box == detections[best_idx].xyxy
         IN  <<ndarray_crop(img, astype_int(box[1]), astype_int(box[2]),
                            astype_int(box[3]), astype_int(box[4])),
               detections>>

\* detect_license_plate, given what self.lp_model(image) returned
detect_license_plate(img, detections) ==
    IF Len(detections) = 0 THEN <<None, detections>>
    ELSE LET best_idx == np_argmax([i \in 1..Len(detections) |-> detections[i].confidence])
             box == detections[best_idx].xyxy
             x_min == astype_int(box[1])
             y_min == astype_int(box[2])
             x_max == astype_int(box[3])
             y_max == astype_int(box[4])
             crop == ndarray_crop(img, x_min, y_min, x_max, y_max)
         IN  <<crop, detections>>

(***************************************************************************)
(* Character recognizer and annotation renderer.                           *)
(***************************************************************************)
\* cv2.resize(img, (640, 640)): an empty source raises cv2.error
cv2_resize(img) ==
    IF img.h = 0 \/ img.w = 0
    THEN Raised("cv2.error", "!ssize.empty()")
    ELSE NdArray(640, 640, img.region, img.drawn)

\* mutant: the sentinel of an invalid count is 0.0
recognize_characters_sentinel_zero(crop, detections) ==
    LET valid == check_license_plate_validity(detections)
    IN  IF ~valid
        THEN [plate_text |-> <<>>, confidence |-> Float(0, 1),
              detections |-> detections, is_valid |-> valid,
              ran |-> <<"check_license_plate_validity">>]
        ELSE [plate_text |-> get_sorted_class_names_in_arabic(detections),
              confidence |-> get_conf_level(detections),
              detections |-> detections, is_valid |-> valid,
              ran |-> <<"check_license_plate_validity",
                        "get_sorted_class_names_in_arabic", "get_conf_level">>]

\* mutant: the text is assembled and the mean taken before the count is checked
recognize_characters_gate_last(crop, detections) ==
    LET valid == check_license_plate_validity(detections)
    IN  [plate_text |-> IF valid THEN get_sorted_class_names_in_arabic(detections) ELSE <<>>,
         confidence |-> IF valid THEN get_conf_level(detections) ELSE Float(-1, 1),
         detections |-> detections, is_valid |-> valid,
         ran |-> <<"get_sorted_class_names_in_arabic", "get_conf_level",
                   "check_license_plate_validity">>]

\* recognize_characters after the resize, given what self.ocr_model(lp_resized) returned
\* the field ran lists the helpers run, in order
recognize_characters(crop, detections) ==
    LET valid == check_license_plate_validity(detections)
    IN  IF ~valid
        THEN [plate_text |-> <<>>, confidence |-> Float(-1, 1),
              detections |-> detections, is_valid |-> valid,
              ran |-> <<"check_license_plate_validity">>]
        ELSE [plate_text |-> get_sorted_class_names_in_arabic(detections),
              confidence |-> get_conf_level(detections),
              detections |-> detections, is_valid |-> valid,
              ran |-> <<"check_license_plate_validity",
                        "get_sorted_class_names_in_arabic", "get_conf_level">>]

\* mutant: nothing to draw, no image returned
create_annotated_crop_none_when_empty(crop, detections) ==
    LET annotated == cv2_resize(crop)
        n == Len(detections)
        labels == [i \in 1..n |-> map_prediction_to_arabic(detections[i].class_name)]
        boxes_drawn == [i \in 1..n |-> [what |-> "box", xyxy |-> detections[i].xyxy]]
        labels_drawn ==
            [i \in 1..n |-> [what |-> "label", xyxy |-> detections[i].xyxy, text |-> labels[i]]]
    IN  IF n = 0 THEN None
        ELSE [annotated EXCEPT !.drawn = @ \o boxes_drawn \o labels_drawn]

create_annotated_crop(crop, detections) ==
    LET annotated == cv2_resize(crop)
        n == Len(detections)
        labels == [i \in 1..n |-> map_prediction_to_arabic(detections[i].class_name)]
        boxes_drawn == [i \in 1..n |-> [what |-> "box", xyxy |-> detections[i].xyxy]]
        labels_drawn ==
            [i \in 1..n |-> [what |-> "label", xyxy |-> detections[i].xyxy, text |-> labels[i]]]
    IN  IF n = 0 \/ annotated.kind # "ndarray" THEN annotated
        ELSE [annotated EXCEPT !.drawn = @ \o boxes_drawn \o labels_drawn]

(***************************************************************************)
(* Arrays as objects.  A buffer holds pixels; an array object reads and    *)
(* writes one buffer, all of it or a window of it (a slice is a view).     *)
(* The heap is the sequence of the buffers allocated so far.               *)
(***************************************************************************)
\* window <<>>: the whole buffer
ArrayOf(buf, window) == [kind |-> "array", buf |-> buf, window |-> window]

\* the pixels the array a shows
pixels(heap, a) ==
    IF Len(a.window) = 0 THEN heap[a.buf]
    ELSE ndarray_crop(heap[a.buf], a.window[1], a.window[2], a.window[3], a.window[4])

\* a[y_min:y_max, x_min:x_max] of an array that shows its whole buffer: a view
ndarray_slice(a, x_min, y_min, x_max, y_max) ==
    ArrayOf(a.buf, <<x_min, y_min, x_max, y_max>>)

\* a.copy(): a new buffer with the pixels a shows
ndarray_copy(heap, a) ==
    [heap |-> Append(heap, pixels(heap, a)), array |-> ArrayOf(Len(heap) + 1, <<>>)]

\* cv2.resize(a, (640, 640)): a new buffer, or cv2.error
cv2_resize_new(heap, a) ==
    LET resized == cv2_resize(pixels(heap, a))
    IN  IF resized.kind = "exception" THEN [heap |-> heap, array |-> resized]
        ELSE [heap |-> Append(heap, resized), array |-> ArrayOf(Len(heap) + 1, <<>>)]

\* annotator.annotate(scene=scene, ...): draws on the buffer of scene, returns scene
annotate(heap, scene, drawings) ==
    [heap |-> [heap EXCEPT ![scene.buf].drawn = @ \o drawings], array |-> scene]

\* detect_license_plate, the crop at the box: image[y_min:y_max, x_min:x_max].copy()
lp_crop_of(heap, img, box) ==
    ndarray_copy(heap, ndarray_slice(img, astype_int(box[1]), astype_int(box[2]),
                                     astype_int(box[3]), astype_int(box[4])))

\* mutant: the crop is drawn on as it is, with neither the copy nor the resize
create_annotated_crop_in_place(heap, crop, detections) ==
    LET n == Len(detections)
        labels == [i \in 1..n |-> map_prediction_to_arabic(detections[i].class_name)]
        boxes_drawn == [i \in 1..n |-> [what |-> "box", xyxy |-> detections[i].xyxy]]
        labels_drawn ==
            [i \in 1..n |-> [what |-> "label", xyxy |-> detections[i].xyxy, text |-> labels[i]]]
    IN  IF n = 0 THEN [heap |-> heap, array |-> crop]
        ELSE LET boxed == annotate(heap, crop, boxes_drawn)
             IN  annotate(boxed.heap, boxed.array, labels_drawn)

\* create_annotated_crop on array objects: the heap afterwards and the array
\* returned (or the exception raised)
create_annotated_crop_new(heap, crop, detections) ==
    LET copied == ndarray_copy(heap, crop)
        annotated == cv2_resize_new(copied.heap, copied.array)
        n == Len(detections)
        labels == [i \in 1..n |-> map_prediction_to_arabic(detections[i].class_name)]
        boxes_drawn == [i \in 1..n |-> [what |-> "box", xyxy |-> detections[i].xyxy]]
        labels_drawn ==
            [i \in 1..n |-> [what |-> "label", xyxy |-> detections[i].xyxy, text |-> labels[i]]]
    IN  IF n = 0 \/ annotated.array.kind = "exception" THEN annotated
        ELSE LET boxed == annotate(annotated.heap, annotated.array, boxes_drawn)
             IN  annotate(boxed.heap, boxed.array, labels_drawn)

(***************************************************************************)
(* Inputs: images and what the two models may return.                      *)
(***************************************************************************)
Images == {NdArray(6, 8, <<0, 0, 8, 6>>, <<>>)}

\* plate boxes in tenths of a pixel: inside the image with fractional edges,
\* less than one pixel wide, the whole image, and one reaching a pixel past the
\* left and right edges
PlateBoxes == {<<15, 10, 55, 40>>, <<20, 20, 25, 50>>, <<0, 0, 80, 60>>, <<-10, 0, 90, 60>>}

PlateDetections ==
    {[xyxy |-> b, confidence |-> c, class_name |-> "plate"] :
        b \in PlateBoxes, c \in {30, 50, 90}}

\* plate detections of the pipeline: a box that crops and a box that is empty
PipelinePlateDetections ==
    {[xyxy |-> <<15, 10, 55, 40>>, confidence |-> 90, class_name |-> "plate"],
     [xyxy |-> <<20, 20, 25, 50>>, confidence |-> 90, class_name |-> "plate"]}

CharDetection(x_max, name, conf) ==
    [xyxy |-> <<x_max - 80, 200, x_max, 440>>, confidence |-> conf, class_name |-> name]

\* character detections of the function-level checks
CharDetections ==
    {CharDetection(100, "a", 90), CharDetection(100, "7", 70),
     CharDetection(500, "z", 80), CharDetection(500, "a", 70),
     CharDetection(300, "kk", 90)}

\* character detections of the pipeline
PipelineCharDetections ==
    {CharDetection(100, "a", 90), CharDetection(500, "z", 80)}

SeqsUpTo(S, n) == UNION {[1..k -> S] : k \in 0..n}

(***************************************************************************)
(* The two models.  Inference is deterministic: the answer the loaded      *)
(* weights give for an input is drawn the first time the input is seen and *)
(* is the same every later time.  A call of a model may also fail.         *)
(***************************************************************************)
Detected(detections) == [kind |-> "detections", val |-> detections]

InferenceError == Raised("RuntimeError", "inference failed")

LpOutcomes ==
    {Detected(d) : d \in SeqsUpTo(PipelinePlateDetections, MaxPlates)} \cup {InferenceError}

\* detection sets around the valid counts in which every confidence is 0.0
ZeroConfidenceOutputs == {[i \in 1..n |-> CharDetection(300, "kk", 0)] : n \in 5..7}

OcrOutcomes ==
    {Detected(d) : d \in SeqsUpTo(PipelineCharDetections, MaxOcr) \cup ZeroConfidenceOutputs}
        \cup {InferenceError}

\* mutant: the network answers afresh on every call
model_call_unseeded(model, input, outcomes) == outcomes

\* model(input): the outcomes the call can have
model_call(model, input, outcomes) ==
    IF \E e \in model : e.input = input
    THEN {e.outcome : e \in {m \in model : m.input = input}}
    ELSE outcomes

\* the model, now known to answer outcome on input
model_seen(model, input, outcome) == model \cup {[input |-> input, outcome |-> outcome]}

(***************************************************************************)
(* process_image_array, one action per stage.  The locals of a call keep   *)
(* whatever an earlier call on the same recognizer left in them until the  *)
(* call assigns them.                                                      *)
(***************************************************************************)
NewResult ==
    [success |-> FALSE, plate_text |-> <<>>, confidence |-> Float(0, 1),
     annotated_crop |-> None, error |-> None]

\* the locals of process_image_array before any call
InitFrame ==
    /\ pc = "IDLE"
    /\ image = None
    /\ result = None
    /\ lp_crop = None
    /\ lp_detections = <<>>
    /\ plate_text = <<>>
    /\ confidence = Float(0, 1)
    /\ ocr_detections = <<>>
    /\ is_valid = FALSE
    /\ exc = None
    /\ lp_calls = 0
    /\ ocr_calls = 0
    /\ helper_calls = <<>>

InitPipeline ==
    /\ InitFrame
    /\ lp_model = {}
    /\ ocr_model = {}

InitRepeat ==
    /\ calls = 0
    /\ first = None

InitNoApi ==
    /\ files = {}
    /\ started = FALSE
    /\ recognizer = None
    /\ constructed = 0
    /\ requests = <<>>
    /\ running = 0

\* process_image_array(img) entered: the result is initialised and the image checked
BeginWith(img) ==
    /\ image' = img
    /\ calls' = calls + 1
    /\ exc' = None
    /\ lp_calls' = 0
    /\ ocr_calls' = 0
    /\ helper_calls' = <<>>
    /\ IF img = None
       THEN /\ result' = [NewResult EXCEPT !.error = Str("Invalid image")]
            /\ pc' = "DONE"
       ELSE /\ result' = NewResult
            /\ pc' = "LOCALIZING"
    /\ UNCHANGED <<argsort_ties, lp_crop, lp_detections, plate_text, confidence,
                   ocr_detections, is_valid, lp_model, ocr_model>>

\* NEW: the first call on a recognizer
Begin ==
    /\ pc = "IDLE"
    /\ \E img \in Images \cup {None} : BeginWith(img)
    /\ UNCHANGED <<first, arg, ret, api_vars>>

\* mutant: the early return on no plate is missing its message
DetectLicensePlateNoMessage ==
    /\ pc = "LOCALIZING"
    /\ \E outcome \in model_call(lp_model, image, LpOutcomes) :
         /\ lp_model' = model_seen(lp_model, image, outcome)
         /\ lp_calls' = lp_calls + 1
         /\ IF outcome.kind = "exception"
            THEN /\ exc' = outcome
                 /\ pc' = "RAISED"
                 /\ UNCHANGED <<lp_crop, lp_detections, result>>
            ELSE LET r == detect_license_plate(image, outcome.val)
                 IN  /\ lp_crop' = r[1]
                     /\ lp_detections' = r[2]
                     /\ exc' = exc
                     /\ result' = result
                     /\ pc' = IF r[1] = None THEN "DONE" ELSE "LOCALIZED"
    /\ UNCHANGED <<argsort_ties, image, plate_text, confidence, ocr_detections, is_valid,
                   ocr_calls, helper_calls, ocr_model, repeat_vars, arg, ret, api_vars>>

\* LOCALIZING -> LOCALIZED | NOT_FOUND -> DONE
DetectLicensePlate ==
    /\ pc = "LOCALIZING"
    /\ \E outcome \in model_call(lp_model, image, LpOutcomes) :
         /\ lp_model' = model_seen(lp_model, image, outcome)
         /\ lp_calls' = lp_calls + 1
         /\ IF outcome.kind = "exception"
            THEN /\ exc' = outcome
                 /\ pc' = "RAISED"
                 /\ UNCHANGED <<lp_crop, lp_detections, result>>
            ELSE LET r == detect_license_plate(image, outcome.val)
                 IN  /\ lp_crop' = r[1]
                     /\ lp_detections' = r[2]
                     /\ exc' = exc
                     /\ IF r[1] = None
                        THEN /\ result' = [result EXCEPT
                                   !.error = Str("No license plate detected in the image")]
                             /\ pc' = "DONE"
                        ELSE /\ result' = result
                             /\ pc' = "LOCALIZED"
    /\ UNCHANGED <<argsort_ties, image, plate_text, confidence, ocr_detections, is_valid,
                   ocr_calls, helper_calls, ocr_model, repeat_vars, arg, ret, api_vars>>

\* mutant: the detections of a call are added to those an earlier call left
RecognizeCharactersAccumulating ==
    /\ pc = "LOCALIZED"
    /\ LET lp_resized == cv2_resize(lp_crop)
       IN  IF lp_resized.kind = "exception"
           THEN /\ exc' = lp_resized
                /\ pc' = "RAISED"
                /\ UNCHANGED <<plate_text, confidence, ocr_detections, is_valid, ocr_calls,
                               helper_calls, ocr_model>>
           ELSE \E outcome \in model_call(ocr_model, lp_resized, OcrOutcomes) :
                  /\ ocr_model' = model_seen(ocr_model, lp_resized, outcome)
                  /\ ocr_calls' = ocr_calls + 1
                  /\ IF outcome.kind = "exception"
                     THEN /\ exc' = outcome
                          /\ pc' = "RAISED"
                          /\ UNCHANGED <<plate_text, confidence, ocr_detections, is_valid,
                                         helper_calls>>
                     ELSE LET r == recognize_characters(lp_crop,
                                                        ocr_detections \o outcome.val)
                          IN  /\ plate_text' = r.plate_text
                              /\ confidence' = r.confidence
                              /\ ocr_detections' = r.detections
                              /\ is_valid' = r.is_valid
                              /\ helper_calls' = r.ran
                              /\ pc' = "RECOGNIZED"
                              /\ exc' = exc
    /\ UNCHANGED <<argsort_ties, image, result, lp_crop, lp_detections, lp_calls, lp_model,
                   repeat_vars, arg, ret, api_vars>>

\* RECOGNIZING: the resize, the OCR model and the count gate
RecognizeCharacters ==
    /\ pc = "LOCALIZED"
    /\ LET lp_resized == cv2_resize(lp_crop)
       IN  IF lp_resized.kind = "exception"
           THEN /\ exc' = lp_resized
                /\ pc' = "RAISED"
                /\ UNCHANGED <<plate_text, confidence, ocr_detections, is_valid, ocr_calls,
                               helper_calls, ocr_model>>
           ELSE \E outcome \in model_call(ocr_model, lp_resized, OcrOutcomes) :
                  /\ ocr_model' = model_seen(ocr_model, lp_resized, outcome)
                  /\ ocr_calls' = ocr_calls + 1
                  /\ IF outcome.kind = "exception"
                     THEN /\ exc' = outcome
                          /\ pc' = "RAISED"
                          /\ UNCHANGED <<plate_text, confidence, ocr_detections, is_valid,
                                         helper_calls>>
                     ELSE LET r == recognize_characters(lp_crop, outcome.val)
                          IN  /\ plate_text' = r.plate_text
                              /\ confidence' = r.confidence
                              /\ ocr_detections' = r.detections
                              /\ is_valid' = r.is_valid
                              /\ helper_calls' = r.ran
                              /\ pc' = "RECOGNIZED"
                              /\ exc' = exc
    /\ UNCHANGED <<argsort_ties, image, result, lp_crop, lp_detections, lp_calls, lp_model,
                   repeat_vars, arg, ret, api_vars>>

\* mutant: the failure returns what could be read of a malformed plate
ReturnInvalidWithText ==
    /\ pc = "RECOGNIZED"
    /\ FloatLess(confidence, Float(0, 1))
    /\ result' = [result EXCEPT
                    !.error = Str("Could not recognize valid license plate (need 6-7 characters)"),
                    !.plate_text = get_sorted_class_names_in_arabic(ocr_detections),
                    !.annotated_crop = create_annotated_crop(lp_crop, ocr_detections)]
    /\ pc' = "DONE"
    /\ UNCHANGED <<argsort_ties, image, lp_crop, lp_detections, plate_text, confidence,
                   ocr_detections, is_valid, exc, lp_calls, ocr_calls, helper_calls,
                   lp_model, ocr_model, repeat_vars, arg, ret, api_vars>>

\* mutant: the failure returns the confidence recognize_characters gave
ReturnInvalidWithConfidence ==
    /\ pc = "RECOGNIZED"
    /\ FloatLess(confidence, Float(0, 1))
    /\ result' = [result EXCEPT
                    !.error = Str("Could not recognize valid license plate (need 6-7 characters)"),
                    !.confidence = confidence,
                    !.annotated_crop = create_annotated_crop(lp_crop, ocr_detections)]
    /\ pc' = "DONE"
    /\ UNCHANGED <<argsort_ties, image, lp_crop, lp_detections, plate_text, confidence,
                   ocr_detections, is_valid, exc, lp_calls, ocr_calls, helper_calls,
                   lp_model, ocr_model, repeat_vars, arg, ret, api_vars>>

\* mutant: the failure carries no message
ReturnInvalidNoMessage ==
    /\ pc = "RECOGNIZED"
    /\ FloatLess(confidence, Float(0, 1))
    /\ result' = [result EXCEPT
                    !.annotated_crop = create_annotated_crop(lp_crop, ocr_detections)]
    /\ pc' = "DONE"
    /\ UNCHANGED <<argsort_ties, image, lp_crop, lp_detections, plate_text, confidence,
                   ocr_detections, is_valid, exc, lp_calls, ocr_calls, helper_calls,
                   lp_model, ocr_model, repeat_vars, arg, ret, api_vars>>

\* INVALID -> DONE
ReturnInvalid ==
    /\ pc = "RECOGNIZED"
    /\ FloatLess(confidence, Float(0, 1))
    /\ result' = [result EXCEPT
                    !.error = Str("Could not recognize valid license plate (need 6-7 characters)"),
                    !.annotated_crop = create_annotated_crop(lp_crop, ocr_detections)]
    /\ pc' = "DONE"
    /\ UNCHANGED <<argsort_ties, image, lp_crop, lp_detections, plate_text, confidence,
                   ocr_detections, is_valid, exc, lp_calls, ocr_calls, helper_calls,
                   lp_model, ocr_model, repeat_vars, arg, ret, api_vars>>

\* mutant: the confidence is not copied into the result
ReturnSuccessDefaultConfidence ==
    /\ pc = "RECOGNIZED"
    /\ ~FloatLess(confidence, Float(0, 1))
    /\ LET annotated_crop == create_annotated_crop(lp_crop, ocr_detections)
       IN  result' = [result EXCEPT !.success = TRUE,
                                    !.plate_text = plate_text,
                                    !.annotated_crop = annotated_crop]
    /\ pc' = "DONE"
    /\ UNCHANGED <<argsort_ties, image, lp_crop, lp_detections, plate_text, confidence,
                   ocr_detections, is_valid, exc, lp_calls, ocr_calls, helper_calls,
                   lp_model, ocr_model, repeat_vars, arg, ret, api_vars>>

\* VALID -> DONE
ReturnSuccess ==
    /\ pc = "RECOGNIZED"
    /\ ~FloatLess(confidence, Float(0, 1))
    /\ LET annotated_crop == create_annotated_crop(lp_crop, ocr_detections)
       IN  result' = [result EXCEPT !.success = TRUE,
                                    !.plate_text = plate_text,
                                    !.confidence = confidence,
                                    !.annotated_crop = annotated_crop]
    /\ pc' = "DONE"
    /\ UNCHANGED <<argsort_ties, image, lp_crop, lp_detections, plate_text, confidence,
                   ocr_detections, is_valid, exc, lp_calls, ocr_calls, helper_calls,
                   lp_model, ocr_model, repeat_vars, arg, ret, api_vars>>

Init ==
    /\ argsort_ties \in {"ascending", "descending"}
    /\ InitPipeline
    /\ InitRepeat
    /\ InitNoApi
    /\ arg = None
    /\ ret = None

Next ==
    \/ Begin
    \/ DetectLicensePlate
    \/ RecognizeCharacters
    \/ ReturnInvalid
    \/ ReturnSuccess

Spec == Init /\ [][Next]_vars

\* a second call on the same recognizer with the same image
CallAgain ==
    /\ pc \in {"DONE", "RAISED"}
    /\ calls = 1
    /\ first' = [result |-> result, exc |-> exc]
    /\ BeginWith(image)
    /\ UNCHANGED <<arg, ret, api_vars>>

NextRepeat ==
    \/ Next
    \/ CallAgain

SpecRepeat == Init /\ [][NextRepeat]_vars

(***************************************************************************)
(* The copy of the pipeline in src/lpr_detector.py, as functions of the    *)
(* image and of the two models.  numpy, cv2 and supervision are the same   *)
(* libraries in both files.                                                *)
(***************************************************************************)
lpr_detector_ARABIC_MAPPING ==
    "a" :> 1571 @@ "b" :> 1576 @@ "kk" :> 1602 @@ "ss" :> 1589 @@ "s" :> 1587 @@
    "tt" :> 1591 @@ "o" :> 1593 @@ "l" :> 1604 @@ "r" :> 1585 @@ "n" :> 1606 @@
    "m" :> 1605 @@ "00" :> 1607 @@ "w" :> 1608 @@ "y" :> 1609 @@ "g" :> 1580 @@
    "d" :> 1583 @@ "f" :> 1601 @@ "1" :> 1633 @@ "2" :> 1634 @@ "3" :> 1635 @@
    "4" :> 1636 @@ "5" :> 1637 @@ "6" :> 1638 @@ "7" :> 1639 @@ "8" :> 1640 @@
    "9" :> 1641 @@ "0" :> 1632

lpr_detector_map_prediction_to_arabic(letter) ==
    IF letter \in DOMAIN lpr_detector_ARABIC_MAPPING
    THEN <<lpr_detector_ARABIC_MAPPING[letter]>>
    ELSE <<63>>

lpr_detector_get_sorted_class_names_in_arabic(detections) ==
    IF Len(detections) = 0 THEN <<>>
    ELSE LET right_x_coords == [i \in 1..Len(detections) |-> detections[i].xyxy[3]]
             sorted_indices == Reverse(np_argsort(right_x_coords))
             sorted_class_names ==
                 [k \in 1..Len(detections) |-> detections[sorted_indices[k]].class_name]
             arabic_chars ==
                 [k \in 1..Len(detections) |->
                     lpr_detector_map_prediction_to_arabic(sorted_class_names[k])]
         IN  str_join(<<32>>, arabic_chars)

\* mutant: only seven characters make a plate
lpr_detector_check_validity_seven_only(detections) == Len(detections) = 7

lpr_detector_check_license_plate_validity(detections) ==
    LET num_detections == Len(detections)
    IN  num_detections \in {6, 7}

lpr_detector_get_conf_level(detections) ==
    IF Len(detections) = 0 THEN Float(0, 1)
    ELSE Float(SumSeq([i \in 1..Len(detections) |-> detections[i].confidence]),
               100 * Len(detections))

\* what a call returned, as opposed to the exception it raised
ReturnValue(val) == [kind |-> "returned", val |-> val]

\* what the model answers on the input: detections, or the exception of a failed call
model_answer(model, input) == (CHOOSE e \in model : e.input = input).outcome

\* detect_license_plate: (lp_crop, detections), or the exception raised
lpr_detector_detect_license_plate(lp, img) ==
    LET results == model_answer(lp, img)
    IN  IF results.kind = "exception" THEN results
        ELSE LET detections == results.val
             IN  IF Len(detections) = 0 THEN ReturnValue(<<None, detections>>)
                 ELSE LET best_idx == np_argmax([i \in 1..Len(detections) |->
                                                    detections[i].confidence])
                          box == detections[best_idx].xyxy
                          x_min == astype_int(box[1])
                          y_min == astype_int(box[2])
                          x_max == astype_int(box[3])
                          y_max == astype_int(box[4])
                      IN  ReturnValue(<<ndarray_crop(img, x_min, y_min, x_max, y_max),
                                        detections>>)

\* recognize_characters: (plate_text, confidence, detections), or the exception raised
lpr_detector_recognize_characters(ocr, crop) ==
    LET lp_resized == cv2_resize(crop)
    IN  IF lp_resized.kind = "exception" THEN lp_resized
        ELSE LET results == model_answer(ocr, lp_resized)
             IN  IF results.kind = "exception" THEN results
                 ELSE LET detections == results.val
                          valid == lpr_detector_check_license_plate_validity(detections)
                      IN  IF ~valid THEN ReturnValue(<<<<>>, Float(-1, 1), detections>>)
                          ELSE ReturnValue(
                                 <<lpr_detector_get_sorted_class_names_in_arabic(detections),
                                   lpr_detector_get_conf_level(detections), detections>>)

lpr_detector_create_annotated_crop(crop, detections) ==
    LET annotated == cv2_resize(crop)
        n == Len(detections)
        labels ==
            [i \in 1..n |-> lpr_detector_map_prediction_to_arabic(detections[i].class_name)]
        boxes_drawn == [i \in 1..n |-> [what |-> "box", xyxy |-> detections[i].xyxy]]
        labels_drawn ==
            [i \in 1..n |-> [what |-> "label", xyxy |-> detections[i].xyxy, text |-> labels[i]]]
    IN  IF n = 0 \/ annotated.kind # "ndarray" THEN annotated
        ELSE [annotated EXCEPT !.drawn = @ \o boxes_drawn \o labels_drawn]

\* process_image and process_image_array from the detection step on
lpr_detector_process_loaded(lp, ocr, img) ==
    LET fresh == NewResult
        located == lpr_detector_detect_license_plate(lp, img)
    IN  IF located.kind = "exception" THEN located
        ELSE IF located.val[1] = None
        THEN ReturnValue([fresh EXCEPT
                            !.error = Str("No license plate detected in the image")])
        ELSE LET crop == located.val[1]
                 read == lpr_detector_recognize_characters(ocr, crop)
             IN  IF read.kind = "exception" THEN read
                 ELSE LET plate_text_ == read.val[1]
                          confidence_ == read.val[2]
                          ocr_detections_ == read.val[3]
                          annotated_crop ==
                              lpr_detector_create_annotated_crop(crop, ocr_detections_)
                      IN  IF FloatLess(confidence_, Float(0, 1))
                          THEN ReturnValue([fresh EXCEPT
                                 !.error = Str("Could not recognize valid license plate (need 6-7 characters)"),
                                 !.annotated_crop = annotated_crop])
                          ELSE ReturnValue([fresh EXCEPT
                                 !.success = TRUE,
                                 !.plate_text = plate_text_,
                                 !.confidence = confidence_,
                                 !.annotated_crop = annotated_crop])

\* process_image_array(image): the dict returned, or the exception raised
lpr_detector_process_image_array(lp, ocr, img) ==
    IF img = None
    THEN ReturnValue([NewResult EXCEPT !.error = Str("Invalid image")])
    ELSE lpr_detector_process_loaded(lp, ocr, img)

\* process_image(image_path), cv2.imread(image_path) giving img (None: not loadable)
lpr_detector_process_image(lp, ocr, image_path, img) ==
    IF img = None
    THEN ReturnValue([NewResult EXCEPT
                        !.error = Str("Could not load image: " \o image_path)])
    ELSE lpr_detector_process_loaded(lp, ocr, img)

(***************************************************************************)
(* Function-level checks: Init draws one input, an action applies one      *)
(* function of lpr_service.py to it.                                       *)
(***************************************************************************)
\* the collection s reordered: element k of the result is s[p[k]]
Permute(s, p) == [k \in 1..Len(s) |-> s[p[k]]]

\* labels looked up: the 27 of the map and labels the map does not hold
Labels == DOMAIN ARABIC_MAPPING \cup {"z", "A", "10", ""}

CharsInputs ==
    UNION {{[kind |-> "chars", detections |-> d, perm |-> p] : p \in Permutations(1..Len(d))} :
              d \in SeqsUpTo(CharDetections, MaxChars)}

\* detection sets of every size up to MaxOcr, for the count gate
CountInputs ==
    {[kind |-> "count", detections |-> [i \in 1..n |-> d]] :
        n \in 0..MaxOcr, d \in PipelineCharDetections}

LabelInputs == {[kind |-> "label", letter |-> l] : l \in Labels}

PlatesInputs ==
    {[kind |-> "plates", image |-> img, detections |-> d] :
        img \in Images, d \in SeqsUpTo(PlateDetections, MaxPlates)}

Returned(fn, val) == [kind |-> "return", fn |-> fn, val |-> val]

CallMapPrediction ==
    /\ arg.kind = "label"
    /\ ret = None
    /\ ret' = Returned("map_prediction_to_arabic", map_prediction_to_arabic(arg.letter))
    /\ UNCHANGED <<argsort_ties, pipeline_vars, repeat_vars, arg, api_vars>>

\* the assembler on the collection and on the collection reordered by arg.perm
CallGetSorted ==
    /\ arg.kind = "chars"
    /\ ret = None
    /\ ret' = [kind |-> "return", fn |-> "get_sorted_class_names_in_arabic",
                val |-> get_sorted_class_names_in_arabic(arg.detections),
                reordered |->
                    get_sorted_class_names_in_arabic(Permute(arg.detections, arg.perm))]
    /\ UNCHANGED <<argsort_ties, pipeline_vars, repeat_vars, arg, api_vars>>

CallCheckValidity ==
    /\ arg.kind \in {"chars", "count"}
    /\ ret = None
    /\ ret' = Returned("check_license_plate_validity",
                       check_license_plate_validity(arg.detections))
    /\ UNCHANGED <<argsort_ties, pipeline_vars, repeat_vars, arg, api_vars>>

CallGetConfLevel ==
    /\ arg.kind \in {"chars", "count"}
    /\ ret = None
    /\ ret' = Returned("get_conf_level", get_conf_level(arg.detections))
    /\ UNCHANGED <<argsort_ties, pipeline_vars, repeat_vars, arg, api_vars>>

CallDetectLicensePlate ==
    /\ arg.kind = "plates"
    /\ ret = None
    /\ ret' = Returned("detect_license_plate", detect_license_plate(arg.image, arg.detections))
    /\ UNCHANGED <<argsort_ties, pipeline_vars, repeat_vars, arg, api_vars>>

\* the renderer is only ever given a crop that cv2.resize accepted: the boxes
\* that crop at least one pixel
AnnotateInputs ==
    {[kind |-> "annotate", image |-> img, box |-> b, detections |-> d] :
        img \in Images,
        b \in {x \in PlateBoxes : astype_int(x[1]) # astype_int(x[3])},
        d \in SeqsUpTo(CharDetections, MaxChars)}

\* the image in a buffer of its own, the crop taken as detect_license_plate
\* takes it, and create_annotated_crop on that crop
CallCreateAnnotatedCrop ==
    /\ arg.kind = "annotate"
    /\ ret = None
    /\ LET img == ArrayOf(1, <<>>)
           cropped == lp_crop_of(<<arg.image>>, img, arg.box)
           r == create_annotated_crop_new(cropped.heap, cropped.array, arg.detections)
       IN  ret' = [kind |-> "return", fn |-> "create_annotated_crop", val |-> r.array,
                   image |-> img, lp_crop |-> cropped.array,
                   before |-> cropped.heap, after |-> r.heap]
    /\ UNCHANGED <<argsort_ties, pipeline_vars, repeat_vars, arg, api_vars>>

InitFn ==
    /\ argsort_ties \in {"ascending", "descending"}
    /\ InitPipeline
    /\ InitRepeat
    /\ InitNoApi
    /\ arg \in CharsInputs \cup CountInputs \cup LabelInputs \cup PlatesInputs
                \cup AnnotateInputs
    /\ ret = None

NextFn ==
    \/ CallMapPrediction
    \/ CallGetSorted
    \/ CallCheckValidity
    \/ CallGetConfLevel
    \/ CallDetectLicensePlate
    \/ CallCreateAnnotatedCrop

SpecFn == InitFn /\ [][NextFn]_vars

(***************************************************************************)
(* The service of src/api/main.py: the lazily built global recognizer and  *)
(* the recognize_plate coroutines.  The coroutines share one event loop: a *)
(* coroutine gives it up only at an await, so the code between two awaits  *)
(* runs with no other coroutine in between (running holds its request).    *)
(***************************************************************************)
\* most recognize requests received
MaxRequests == 2

LP_MODEL_FILE == "yolov10_license_plate_detection.pt"

OCR_MODEL_FILE == "yolov10_Arabic_OCR.pt"

\* [parent_dir, script_dir, Path(".")]
BaseDirs == <<"parent_dir", "script_dir", ".">>

Path(base_dir, name) == [dir |-> base_dir, name |-> name]

\* what may be on disk: nothing; both files in one directory; one file in each
\* of two directories; both files in the last directory and one in the first
FileSystems ==
    {{},
     {Path("parent_dir", LP_MODEL_FILE), Path("parent_dir", OCR_MODEL_FILE)},
     {Path("parent_dir", LP_MODEL_FILE), Path("script_dir", OCR_MODEL_FILE)},
     {Path(".", LP_MODEL_FILE), Path(".", OCR_MODEL_FILE), Path("parent_dir", OCR_MODEL_FILE)}}

LicensePlateRecognizer(lp_model_path, ocr_model_path, n) ==
    [kind |-> "LicensePlateRecognizer", lp_model_path |-> lp_model_path,
     ocr_model_path |-> ocr_model_path, id |-> n]

ModelFilesNotFound ==
    Raised("RuntimeError",
           "Model files not found. Please ensure yolov10_license_plate_detection.pt and yolov10_Arabic_OCR.pt are in the project directory.")

\* mutant: a directory holding either file is taken
get_recognizer_either_file ==
    IF recognizer # None
    THEN [global |-> recognizer, returned |-> recognizer, built |-> 0]
    ELSE LET found == {i \in 1..Len(BaseDirs) :
                          \/ Path(BaseDirs[i], LP_MODEL_FILE) \in files
                          \/ Path(BaseDirs[i], OCR_MODEL_FILE) \in files}
         IN  IF found = {}
             THEN [global |-> None, returned |-> ModelFilesNotFound, built |-> 0]
             ELSE LET i == CHOOSE k \in found : \A j \in found : k <= j
                      new == LicensePlateRecognizer(Path(BaseDirs[i], LP_MODEL_FILE),
                                                    Path(BaseDirs[i], OCR_MODEL_FILE),
                                                    constructed + 1)
                  IN  [global |-> new, returned |-> new, built |-> 1]

\* mutant: the global statement is missing, the instance built stays local
get_recognizer_not_global ==
    LET found == {i \in 1..Len(BaseDirs) :
                     /\ Path(BaseDirs[i], LP_MODEL_FILE) \in files
                     /\ Path(BaseDirs[i], OCR_MODEL_FILE) \in files}
    IN  IF found = {}
        THEN [global |-> None, returned |-> ModelFilesNotFound, built |-> 0]
        ELSE LET i == CHOOSE k \in found : \A j \in found : k <= j
                 new == LicensePlateRecognizer(Path(BaseDirs[i], LP_MODEL_FILE),
                                               Path(BaseDirs[i], OCR_MODEL_FILE),
                                               constructed + 1)
             IN  [global |-> None, returned |-> new, built |-> 1]

\* get_recognizer(): the global afterwards, what the call returned or raised,
\* and the number of recognizers it built
get_recognizer ==
    IF recognizer # None
    THEN [global |-> recognizer, returned |-> recognizer, built |-> 0]
    ELSE LET found == {i \in 1..Len(BaseDirs) :
                          /\ Path(BaseDirs[i], LP_MODEL_FILE) \in files
                          /\ Path(BaseDirs[i], OCR_MODEL_FILE) \in files}
         IN  IF found = {}
             THEN [global |-> None, returned |-> ModelFilesNotFound, built |-> 0]
             ELSE LET i == CHOOSE k \in found : \A j \in found : k <= j
                      new == LicensePlateRecognizer(Path(BaseDirs[i], LP_MODEL_FILE),
                                                    Path(BaseDirs[i], OCR_MODEL_FILE),
                                                    constructed + 1)
                  IN  [global |-> new, returned |-> new, built |-> 1]

RecognitionResponse(success, plate, conf, error) ==
    [success |-> success, plate |-> plate, confidence |-> conf, error |-> error]

FailureResponse(error) == RecognitionResponse(FALSE, <<>>, Float(0, 1), error)

\* str(e)
str_of(e) == Str(e.msg)

UploadError == Raised("cloudinary.exceptions.Error", "upload failed")

InsertError == Raised("asyncpg.PostgresError", "insert failed")

NewRequest ==
    [stage |-> "READING", image |-> None, result |-> None, caught |-> None,
     response |-> None, uploads |-> <<>>, inserts |-> 0]

\* lifespan up to its yield: the database is connected, nothing else is done
ApiStartup ==
    /\ ~started
    /\ started' = TRUE
    /\ UNCHANGED <<argsort_ties, pipeline_vars, repeat_vars, arg, ret,
                   files, recognizer, constructed, requests, running>>

\* a request arrives: recognize_plate starts and awaits imageFile.read()
ApiReceive ==
    /\ started
    /\ Len(requests) < MaxRequests
    /\ requests' = Append(requests, NewRequest)
    /\ UNCHANGED <<argsort_ties, pipeline_vars, repeat_vars, arg, ret,
                   files, started, recognizer, constructed, running>>

\* the read is over: the upload is decoded
ApiDecode(r) ==
    /\ r \in DOMAIN requests
    /\ running = 0
    /\ requests[r].stage = "READING"
    /\ \E img \in Images \cup {None} :
         IF img = None
         THEN /\ requests' = [requests EXCEPT
                    ![r].stage = "RESPONDED",
                    ![r].response = FailureResponse(Str("Could not decode image"))]
              /\ running' = 0
         ELSE /\ requests' = [requests EXCEPT ![r].stage = "DECODED", ![r].image = img]
              /\ running' = r
    /\ UNCHANGED <<argsort_ties, pipeline_vars, repeat_vars, arg, ret,
                   files, started, recognizer, constructed>>

\* rec = get_recognizer(), an exception going to the except clause
ApiGetRecognizer(r) ==
    /\ r \in DOMAIN requests
    /\ running = r
    /\ requests[r].stage = "DECODED"
    /\ LET g == get_recognizer
       IN  /\ recognizer' = g.global
           /\ constructed' = constructed + g.built
           /\ IF g.returned.kind = "exception"
              THEN /\ requests' = [requests EXCEPT
                         ![r].stage = "RESPONDED",
                         ![r].caught = g.returned,
                         ![r].response = FailureResponse(str_of(g.returned))]
                   /\ running' = 0
              ELSE /\ requests' = [requests EXCEPT ![r].stage = "GOT_RECOGNIZER"]
                   /\ running' = r
    /\ UNCHANGED <<argsort_ties, pipeline_vars, repeat_vars, arg, ret, files, started>>

\* rec.process_image_array(image) is entered
ApiProcessImage(r) ==
    /\ r \in DOMAIN requests
    /\ running = r
    /\ requests[r].stage = "GOT_RECOGNIZER"
    /\ BeginWith(requests[r].image)
    /\ requests' = [requests EXCEPT ![r].stage = "PROCESSING"]
    /\ UNCHANGED <<first, arg, ret, files, started, recognizer, constructed, running>>

\* mutant: the except clause answers without the message
ApiPipelineRaisedNoMessage(r) ==
    /\ r \in DOMAIN requests
    /\ running = r
    /\ requests[r].stage = "PROCESSING"
    /\ pc = "RAISED"
    /\ requests' = [requests EXCEPT
           ![r].stage = "RESPONDED",
           ![r].caught = exc,
           ![r].response = FailureResponse(None)]
    /\ running' = 0
    /\ UNCHANGED <<argsort_ties, pipeline_vars, repeat_vars, arg, ret,
                   files, started, recognizer, constructed>>

\* process_image_array raised: the except clause answers
ApiPipelineRaised(r) ==
    /\ r \in DOMAIN requests
    /\ running = r
    /\ requests[r].stage = "PROCESSING"
    /\ pc = "RAISED"
    /\ requests' = [requests EXCEPT
           ![r].stage = "RESPONDED",
           ![r].caught = exc,
           ![r].response = FailureResponse(str_of(exc))]
    /\ running' = 0
    /\ UNCHANGED <<argsort_ties, pipeline_vars, repeat_vars, arg, ret,
                   files, started, recognizer, constructed>>

\* process_image_array returned: on success the uploads and the call of
\* insert_detection, which is awaited; otherwise the failure response
ApiPipelineReturned(r) ==
    /\ r \in DOMAIN requests
    /\ running = r
    /\ requests[r].stage = "PROCESSING"
    /\ pc = "DONE"
    /\ running' = 0
    /\ IF result.success
       THEN \/ requests' = [requests EXCEPT
                  ![r].stage = "RESPONDED",
                  ![r].result = result,
                  ![r].uploads = <<"lpr/cars">>,
                  ![r].caught = UploadError,
                  ![r].response = FailureResponse(str_of(UploadError))]
            \/ /\ result.annotated_crop # None
               /\ requests' = [requests EXCEPT
                     ![r].stage = "RESPONDED",
                     ![r].result = result,
                     ![r].uploads = <<"lpr/cars", "lpr/plates">>,
                     ![r].caught = UploadError,
                     ![r].response = FailureResponse(str_of(UploadError))]
            \/ requests' = [requests EXCEPT
                  ![r].stage = "INSERTING",
                  ![r].result = result,
                  ![r].uploads = IF result.annotated_crop # None
                                 THEN <<"lpr/cars", "lpr/plates">>
                                 ELSE <<"lpr/cars">>,
                  ![r].inserts = 1]
       ELSE requests' = [requests EXCEPT
                ![r].stage = "RESPONDED",
                ![r].result = result,
                ![r].response = FailureResponse(result.error)]
    /\ UNCHANGED <<argsort_ties, pipeline_vars, repeat_vars, arg, ret,
                   files, started, recognizer, constructed>>

\* as ApiInsertDone, but the success response is given although the insert raised
ApiInsertDoneAnswersSuccess(r) ==
    /\ r \in DOMAIN requests
    /\ running = 0
    /\ requests[r].stage = "INSERTING"
    /\ \/ requests' = [requests EXCEPT
              ![r].stage = "RESPONDED",
              ![r].response = RecognitionResponse(TRUE, requests[r].result.plate_text,
                                                  requests[r].result.confidence, None)]
       \/ requests' = [requests EXCEPT
              ![r].stage = "RESPONDED",
              ![r].caught = InsertError,
              ![r].response = RecognitionResponse(TRUE, requests[r].result.plate_text,
                                                  requests[r].result.confidence, None)]
    /\ UNCHANGED <<argsort_ties, pipeline_vars, repeat_vars, arg, ret,
                   files, started, recognizer, constructed, running>>

\* the awaited insert_detection is over: the success response, or the except clause
ApiInsertDone(r) ==
    /\ r \in DOMAIN requests
    /\ running = 0
    /\ requests[r].stage = "INSERTING"
    /\ \/ requests' = [requests EXCEPT
              ![r].stage = "RESPONDED",
              ![r].response = RecognitionResponse(TRUE, requests[r].result.plate_text,
                                                  requests[r].result.confidence, None)]
       \/ requests' = [requests EXCEPT
              ![r].stage = "RESPONDED",
              ![r].caught = InsertError,
              ![r].response = FailureResponse(str_of(InsertError))]
    /\ UNCHANGED <<argsort_ties, pipeline_vars, repeat_vars, arg, ret,
                   files, started, recognizer, constructed, running>>

\* what the weights on disk answer in the service runs
ApiLpOutcomes ==
    {Detected(<<>>), InferenceError} \cup
    {Detected(<<d>>) : d \in PipelinePlateDetections}

ApiOcrOutcomes ==
    {InferenceError} \cup
    {Detected([i \in 1..n |-> CharDetection(100, "a", 90)]) : n \in {5, 6, MaxOcr}}

\* the OCR inputs a plate-model outcome leads to
OcrInputsOf(img, outcome) ==
    IF outcome.kind # "detections" THEN {}
    ELSE LET crop == detect_license_plate(img, outcome.val)[1]
         IN  IF crop = None \/ cv2_resize(crop).kind # "ndarray" THEN {}
             ELSE {cv2_resize(crop)}

InitApi ==
    /\ argsort_ties \in {"ascending", "descending"}
    /\ InitFrame
    /\ \E f \in [Images -> ApiLpOutcomes], o \in ApiOcrOutcomes :
          /\ lp_model = {[input |-> img, outcome |-> f[img]] : img \in Images}
          /\ ocr_model = {[input |-> x, outcome |-> o] :
                             x \in UNION {OcrInputsOf(img, f[img]) : img \in Images}}
    /\ InitRepeat
    /\ arg = None
    /\ ret = None
    /\ files \in FileSystems
    /\ started = FALSE
    /\ recognizer = None
    /\ constructed = 0
    /\ requests = <<>>
    /\ running = 0

NextApi ==
    \/ ApiStartup
    \/ ApiReceive
    \/ \E r \in 1..MaxRequests :
          \/ ApiDecode(r)
          \/ ApiGetRecognizer(r)
          \/ ApiProcessImage(r)
          \/ ApiPipelineRaised(r)
          \/ ApiPipelineReturned(r)
          \/ ApiInsertDone(r)
    \/ DetectLicensePlate
    \/ RecognizeCharacters
    \/ ReturnInvalid
    \/ ReturnSuccess

SpecApi == InitApi /\ [][NextApi]_vars

(***************************************************************************)
(* Properties.                                                             *)
(***************************************************************************)
\* s.split(sep) for a one-codepoint sep
RECURSIVE str_split(_, _)
str_split(s, sep) ==
    IF \A i \in 1..Len(s) : s[i] # sep THEN <<s>>
    ELSE LET i == CHOOSE k \in 1..Len(s) : s[k] = sep /\ \A j \in 1..(k - 1) : s[j] # sep
         IN  <<SubSeq(s, 1, i - 1)>> \o str_split(SubSeq(s, i + 1, Len(s)), sep)

\* sub in s, for TLA+ strings
Contains(s, sub) ==
    \E i \in 1..(Len(s) - Len(sub) + 1) : SubSeq(s, i, i + Len(sub) - 1) = sub

\* p lists the indices of detections by x_max, largest first
RightToLeft(p, detections) ==
    \A k \in 1..(Len(detections) - 1) :
        detections[p[k]].xyxy[3] >= detections[p[k + 1]].xyxy[3]

ConfidencesOf(detections) == [i \in 1..Len(detections) |-> detections[i].confidence]

\* the float f is the arithmetic mean of the confidences (given in hundredths)
IsMeanOf(f, detections) ==
    f.num * 100 * Len(detections) = SumSeq(ConfidencesOf(detections)) * f.den

ReturnedFrom(fn) == ret.kind = "return" /\ ret.fn = fn

OcrRan == pc = "DONE" /\ ocr_calls = 1

\* C1: a localized plate whose OCR output has 6 or 7 detections gives success, no
\* error, the assembler's text and the mean confidence of that output, and an
\* annotated image.
C1_ValidCountSucceeds ==
    (OcrRan /\ Len(lp_detections) > 0 /\ Len(ocr_detections) \in {6, 7}) =>
        /\ result.success = TRUE
        /\ result.error = None
        /\ result.plate_text = get_sorted_class_names_in_arabic(ocr_detections)
        /\ IsMeanOf(result.confidence, ocr_detections)
        /\ result.annotated_crop.kind = "ndarray"

C1_Witness ==
    /\ OcrRan
    /\ Len(ocr_detections) = 7
    /\ result.success
    /\ result.plate_text = <<63, 32, 63, 32, 63, 32, 1571, 32, 1571, 32, 1571, 32, 1571>>
    /\ result.confidence = Float(6, 7)

\* C2: a localized plate whose OCR output has any other count gives a failure
\* whose error mentions "6-7 characters", with the annotated image present.
C2_InvalidCountFails ==
    (OcrRan /\ Len(lp_detections) > 0 /\ Len(ocr_detections) \notin {6, 7}) =>
        /\ result.success = FALSE
        /\ result.error.kind = "str"
        /\ Contains(result.error.val, "6-7 characters")
        /\ result.annotated_crop.kind = "ndarray"

C2_Witness ==
    /\ OcrRan
    /\ Len(ocr_detections) = 5
    /\ result.success = FALSE
    /\ result.annotated_crop.kind = "ndarray"
    /\ Len(result.annotated_crop.drawn) = 10

\* C3: when the plate model returns no detection the result is a failure with the
\* error "No license plate detected in the image" and no annotated image.
C3_NoPlateNotFound ==
    (pc = "DONE" /\ lp_calls = 1 /\ Len(lp_detections) = 0) =>
        /\ result.success = FALSE
        /\ result.error = Str("No license plate detected in the image")
        /\ result.annotated_crop = None

C3_Witness ==
    /\ pc = "DONE"
    /\ lp_calls = 1
    /\ Len(lp_detections) = 0
    /\ ocr_calls = 0
    /\ result.error = Str("No license plate detected in the image")

\* C4: the validity gate accepts a detection set exactly when its size is 6 or 7.
C4_GateIffSixOrSeven ==
    ReturnedFrom("check_license_plate_validity") =>
        LET N == Len(arg.detections)
        IN  /\ ret.val = TRUE <=> (N = 6 \/ N = 7)
            /\ N <= 5 => ret.val = FALSE
            /\ N >= 8 => ret.val = FALSE

C4_Witness ==
    /\ ReturnedFrom("check_license_plate_validity")
    /\ Len(arg.detections) = 8
    /\ ret.val = FALSE

\* the tokens are the glyphs of the detections read in the order p
GlyphsInOrder(tokens, p, detections) ==
    \A k \in 1..Len(detections) :
        tokens[k] = map_prediction_to_arabic(detections[p[k]].class_name)

\* C5: the assembled text of N > 0 detections is their glyphs in descending order
\* of x_max joined by single spaces, N space-separated tokens; of no detection it
\* is the empty string.
C5_TextIsGlyphsRightToLeft ==
    ReturnedFrom("get_sorted_class_names_in_arabic") =>
        LET detections == arg.detections
            N == Len(detections)
            tokens == str_split(ret.val, 32)
        IN  IF N = 0 THEN ret.val = <<>>
            ELSE /\ Len(tokens) = N
                 /\ Len(ret.val) = 2 * N - 1
                 /\ \E p \in Permutations(1..N) :
                       RightToLeft(p, detections) /\ GlyphsInOrder(tokens, p, detections)

C5_Witness ==
    /\ ReturnedFrom("get_sorted_class_names_in_arabic")
    /\ [i \in 1..Len(arg.detections) |-> arg.detections[i].xyxy[3]] = <<100, 500, 300>>
    /\ [i \in 1..Len(arg.detections) |-> arg.detections[i].class_name] = <<"7", "a", "kk">>
    /\ ret.val = <<1571, 32, 1602, 32, 1639>>

\* detections that share an x_max show the same glyph
TiesShareGlyph(detections) ==
    \A i, j \in 1..Len(detections) :
        detections[i].xyxy[3] = detections[j].xyxy[3] =>
            map_prediction_to_arabic(detections[i].class_name)
                = map_prediction_to_arabic(detections[j].class_name)

\* C6 as stated: the assembler returns the same text on every reordering of its
\* input, detections sharing an x_max included.
C6_ReorderingKeepsText ==
    ReturnedFrom("get_sorted_class_names_in_arabic") => ret.reordered = ret.val

\* C6 as amended: the assembler returns the same text on every reordering of a
\* detection set in which detections sharing an x_max show the same glyph.
C6_ReorderingKeepsTextWithoutTies ==
    (ReturnedFrom("get_sorted_class_names_in_arabic") /\ TiesShareGlyph(arg.detections)) =>
        ret.reordered = ret.val

C6_Witness ==
    /\ ReturnedFrom("get_sorted_class_names_in_arabic")
    /\ [i \in 1..Len(arg.detections) |-> arg.detections[i].xyxy[3]] = <<100, 500, 300>>
    /\ arg.perm = <<3, 1, 2>>
    /\ ret.reordered = ret.val
    /\ Len(ret.val) = 5

\* index i holds the maximum of values and no earlier index does
IsFirstMaximum(values, i) ==
    /\ \A j \in 1..Len(values) : values[j] <= values[i]
    /\ \A j \in 1..(i - 1) : values[j] < values[i]

CropOfBox(img, box) ==
    ndarray_crop(img, astype_int(box[1]), astype_int(box[2]),
                 astype_int(box[3]), astype_int(box[4]))

\* C7: the localizer crops the box of the detection of maximum confidence, the
\* first one in the model's output order when several share it, and returns the
\* whole detection set with the crop.
C7_FirstMaximumConfidenceCropped ==
    (ReturnedFrom("detect_license_plate") /\ Len(arg.detections) > 0) =>
        /\ \E i \in 1..Len(arg.detections) :
              /\ IsFirstMaximum(ConfidencesOf(arg.detections), i)
              /\ ret.val[1] = CropOfBox(arg.image, arg.detections[i].xyxy)
        /\ ret.val[2] = arg.detections

C7_Witness ==
    /\ ReturnedFrom("detect_license_plate")
    /\ ConfidencesOf(arg.detections) = <<50, 90, 90>>
    /\ arg.detections[2].xyxy = <<15, 10, 55, 40>>
    /\ arg.detections[3].xyxy = <<0, 0, 80, 60>>
    /\ ret.val[1].region = <<1, 1, 5, 4>>
    /\ ret.val[1].w = 4
    /\ ret.val[1].h = 3

\* C8: on an empty plate detection set detect_license_plate returns None and the
\* empty set, and no crop.
C8_EmptySetReturnsNone ==
    (ReturnedFrom("detect_license_plate") /\ Len(arg.detections) = 0) =>
        /\ ret.val[1] = None
        /\ ret.val[2] = <<>>

C8_Witness ==
    /\ ReturnedFrom("detect_license_plate")
    /\ Len(arg.detections) = 0
    /\ ret.val = <<None, <<>>>>

\* C9: get_conf_level returns the arithmetic mean of all the confidences of the
\* set, and 0.0 for the empty set.
C9_ConfidenceIsMean ==
    ReturnedFrom("get_conf_level") =>
        IF Len(arg.detections) = 0
        THEN ret.val = Float(0, 1)
        ELSE /\ IsMeanOf(ret.val, arg.detections)
             /\ ret.val.den > 0

C9_Witness ==
    /\ ReturnedFrom("get_conf_level")
    /\ ConfidencesOf(arg.detections) = <<90, 70, 80>>
    /\ ret.val = Float(8, 10)

\* C10: each of the 27 labels of the map resolves to its one Arabic codepoint,
\* every other label resolves to "?", and the "?" stands at the place of its
\* detection in the assembled text.
C10_LookupIsTotal ==
    /\ Cardinality(DOMAIN ARABIC_MAPPING) = 27
    /\ ReturnedFrom("map_prediction_to_arabic") =>
          IF arg.letter \in DOMAIN ARABIC_MAPPING
          THEN /\ ret.val = <<ARABIC_MAPPING[arg.letter]>>
               /\ ret.val[1] \in 1536..1791
          ELSE ret.val = <<63>>
    /\ ReturnedFrom("get_sorted_class_names_in_arabic") =>
          LET detections == arg.detections
              tokens == str_split(ret.val, 32)
          IN  Len(detections) > 0 =>
                /\ Len(tokens) = Len(detections)
                /\ \E p \in Permutations(1..Len(detections)) :
                      /\ RightToLeft(p, detections)
                      /\ \A k \in 1..Len(detections) :
                            tokens[k] = <<63>> <=>
                                detections[p[k]].class_name \notin DOMAIN ARABIC_MAPPING

C10_Witness ==
    /\ ReturnedFrom("get_sorted_class_names_in_arabic")
    /\ [i \in 1..Len(arg.detections) |-> arg.detections[i].class_name] = <<"a", "z", "kk">>
    /\ ret.val = <<63, 32, 1602, 32, 1571>>

\* a second call on the same image has finished
SecondCallOver == calls = 2 /\ pc \in {"DONE", "RAISED"}

\* C11: a second call of process_image_array on the same image, the two models
\* answering as they did the first time, ends as the first call did: the same
\* plate_text, confidence, success and error, or the same exception.
C11_SecondCallSameResult ==
    SecondCallOver =>
        IF pc = "DONE"
        THEN /\ first.exc = None
             /\ result.plate_text = first.result.plate_text
             /\ result.confidence = first.result.confidence
             /\ result.success = first.result.success
             /\ result.error = first.result.error
        ELSE exc = first.exc

C11_Witness ==
    /\ SecondCallOver
    /\ pc = "DONE"
    /\ lp_calls = 1
    /\ ocr_calls = 1
    /\ result.success
    /\ first.result.success
    /\ Len(result.plate_text) = 11

\* the plate model answered the image of this call with no detection
NotFoundCase ==
    /\ lp_calls = 1
    /\ \E e \in lp_model : e.input = image /\ e.outcome = Detected(<<>>)

\* the OCR model answered the plate of this call with a count other than 6 or 7
InvalidCharacterCountCase ==
    /\ ocr_calls = 1
    /\ \E e \in ocr_model :
          /\ e.input = cv2_resize(lp_crop)
          /\ e.outcome.kind = "detections"
          /\ Len(e.outcome.val) \notin {6, 7}

IsNonEmptyStr(v) == v.kind = "str" /\ Len(v.val) > 0

\* C12: NotFound and InvalidCharacterCount are not raised: the call returns a
\* result with success false and a non-empty error string; and in every result
\* returned the error is None exactly when success is true.
C12_FailuresAreReturned ==
    /\ (NotFoundCase \/ InvalidCharacterCountCase) =>
          /\ pc # "RAISED"
          /\ exc = None
          /\ pc = "DONE" => (result.success = FALSE /\ IsNonEmptyStr(result.error))
    /\ NotFoundCase => pc = "DONE"
    /\ pc = "DONE" =>
          /\ result.success <=> result.error = None
          /\ ~result.success => IsNonEmptyStr(result.error)

C12_Witness ==
    /\ pc = "DONE"
    /\ InvalidCharacterCountCase
    /\ Len(ocr_detections) = 8
    /\ exc = None
    /\ result.success = FALSE
    /\ IsNonEmptyStr(result.error)

\* C16 without its last clause: one call invokes the plate model exactly once
\* for an image that is not None and never for None, invokes the OCR model at
\* most once, only after the localizer returned a crop and never when no plate
\* was found.
StageOrderNoRetries ==
    /\ lp_calls <= 1
    /\ ocr_calls <= 1
    /\ (image # None /\ pc \in {"LOCALIZED", "RECOGNIZED", "DONE", "RAISED"}) => lp_calls = 1
    /\ (image = None /\ pc = "DONE") => lp_calls = 0 /\ ocr_calls = 0
    /\ ocr_calls = 1 => (lp_calls = 1 /\ lp_crop.kind = "ndarray")
    /\ NotFoundCase => ocr_calls = 0

\* C16: no retries and one stage order, and every call whose inference calls
\* did not fail returns (reaches DONE) after at most these two inference calls:
\* it is never left by an exception.
C16_EveryCallReturns ==
    /\ StageOrderNoRetries
    /\ exc # InferenceError => pc # "RAISED"

\* C17: in every result plate_text is empty unless success is true; when success
\* is true plate_text is non-empty and is 6 or 7 glyph tokens separated by
\* single spaces.
C17_TextOnlyOnSuccess ==
    result # None =>
        IF result.success
        THEN LET tokens == str_split(result.plate_text, 32)
             IN  /\ result.plate_text # <<>>
                 /\ Len(tokens) \in {6, 7}
                 /\ \A k \in 1..Len(tokens) : Len(tokens[k]) = 1 /\ tokens[k][1] # 32
        ELSE result.plate_text = <<>>

C17_Witness ==
    /\ pc = "DONE"
    /\ result.success
    /\ Len(str_split(result.plate_text, 32)) = 6
    /\ ocr_calls = 1
    /\ ocr_detections[1].class_name = "z"

\* what self.ocr_model returned for the plate of this call
RawOcrDetections ==
    (CHOOSE e \in ocr_model : e.input = cv2_resize(lp_crop)).outcome.val

\* C20: on a count that is not 6 or 7 recognize_characters returns the empty
\* text and -1.0 with the OCR set as the model gave it, having run neither the
\* assembler nor the evaluator; on 6 or 7 it returns the mean of the
\* confidences of that same set.
C20_SentinelOnInvalidCount ==
    pc = "RECOGNIZED" =>
        /\ ocr_detections = RawOcrDetections
        /\ IF Len(RawOcrDetections) \in {6, 7}
           THEN /\ IsMeanOf(confidence, RawOcrDetections)
                /\ is_valid
           ELSE /\ confidence = Float(-1, 1)
                /\ plate_text = <<>>
                /\ ~is_valid
                /\ \A k \in 1..Len(helper_calls) :
                      helper_calls[k] \notin {"get_sorted_class_names_in_arabic",
                                              "get_conf_level"}

C20_Witness ==
    /\ pc = "RECOGNIZED"
    /\ Len(RawOcrDetections) = 5
    /\ ocr_detections = RawOcrDetections
    /\ confidence = Float(-1, 1)
    /\ plate_text = <<>>
    /\ helper_calls = <<"check_license_plate_validity">>

\* in the order p, detections sharing an x_max stand in input order
\* (order = "input") or in reverse input order (order = "reverse")
TiesIn(p, detections, order) ==
    \A k, l \in 1..Len(detections) :
        (k < l /\ detections[p[k]].xyxy[3] = detections[p[l]].xyxy[3]) =>
            IF order = "input" THEN p[k] < p[l] ELSE p[k] > p[l]

\* the text is the glyphs of the detections right to left, ties in the given order
TextWithTies(order) ==
    LET detections == arg.detections
        tokens == str_split(ret.val, 32)
    IN  \E p \in Permutations(1..Len(detections)) :
            /\ RightToLeft(p, detections)
            /\ TiesIn(p, detections, order)
            /\ GlyphsInOrder(tokens, p, detections)

\* C18 as stated: detections sharing an x_max appear in the text in their
\* original input order.
C18_TiesInInputOrder ==
    (ReturnedFrom("get_sorted_class_names_in_arabic") /\ Len(arg.detections) > 0) =>
        TextWithTies("input")

\* C18 as amended: detections sharing an x_max appear in the text in the reverse
\* of the order np.argsort gives them: in reverse input order where np.argsort
\* keeps equal keys in input order.
C18_TiesInReversedArgsortOrder ==
    (ReturnedFrom("get_sorted_class_names_in_arabic") /\ Len(arg.detections) > 0) =>
        TextWithTies(IF argsort_ties = "ascending" THEN "reverse" ELSE "input")

C18_Witness ==
    /\ ReturnedFrom("get_sorted_class_names_in_arabic")
    /\ argsort_ties = "ascending"
    /\ [i \in 1..Len(arg.detections) |-> arg.detections[i].xyxy[3]] = <<100, 500, 100>>
    /\ [i \in 1..Len(arg.detections) |-> arg.detections[i].class_name] = <<"a", "z", "7">>
    /\ ret.val = <<63, 32, 1639, 32, 1571>>

\* C19: for every plate box, one with a coordinate outside the image included,
\* the indices the crop is taken at satisfy 0 <= x_min <= x_max <= width and
\* 0 <= y_min <= y_max <= height, and the crop is the region of the image inside
\* the box.
C19_CropIndicesInsideImage ==
    (ReturnedFrom("detect_license_plate") /\ Len(arg.detections) > 0) =>
        LET box == arg.detections[np_argmax(ConfidencesOf(arg.detections))].xyxy
            x_min == astype_int(box[1])
            y_min == astype_int(box[2])
            x_max == astype_int(box[3])
            y_max == astype_int(box[4])
        IN  /\ 0 <= x_min /\ x_min <= x_max /\ x_max <= arg.image.w
            /\ 0 <= y_min /\ y_min <= y_max /\ y_max <= arg.image.h
            /\ ret.val[1].region = <<x_min, y_min, x_max, y_max>>

\* an inference call failed while request r was being processed
InferenceFailedIn(r) ==
    \/ requests[r].caught = InferenceError
    \/ running = r /\ requests[r].stage = "PROCESSING" /\ pc = "RAISED" /\ exc = InferenceError

\* C13: when an inference call fails during a request, the caller of
\* recognize_plate receives success false with the exception's message as the
\* error, and for that request no image is uploaded and insert_detection is not
\* called.
C13_InferenceFailureAnswered ==
    \A r \in DOMAIN requests :
        InferenceFailedIn(r) =>
            /\ requests[r].uploads = <<>>
            /\ requests[r].inserts = 0
            /\ requests[r].stage \in {"PROCESSING", "RESPONDED"}
            /\ requests[r].stage = "RESPONDED" =>
                  /\ requests[r].response.success = FALSE
                  /\ requests[r].response.error = Str(InferenceError.msg)
                  /\ requests[r].response.plate = <<>>

C13_Witness ==
    /\ Len(requests) = 2
    /\ requests[2].stage = "RESPONDED"
    /\ requests[2].caught = InferenceError
    /\ ocr_calls = 1
    /\ requests[2].response = FailureResponse(Str("inference failed"))
    /\ requests[2].uploads = <<>>
    /\ requests[2].inserts = 0

\* some directory searched holds both weight files
ModelFilesFound ==
    \E i \in 1..Len(BaseDirs) :
        /\ Path(BaseDirs[i], LP_MODEL_FILE) \in files
        /\ Path(BaseDirs[i], OCR_MODEL_FILE) \in files

\* request r has gone past its call of get_recognizer
PastGetRecognizer(r) ==
    \/ requests[r].stage \in {"GOT_RECOGNIZER", "PROCESSING", "INSERTING"}
    \/ requests[r].stage = "RESPONDED" /\ requests[r].image # None

\* at most one recognizer is ever built, and the global, once set, stays that one
OneRecognizerKept ==
    /\ constructed <= 1
    /\ constructed = 1 <=> recognizer # None
    /\ recognizer # None => recognizer.id = 1

\* C14 as stated: the weights are loaded at process start, before any request
\* is served (with the weight files in place the recognizer exists once
\* startup is over), at most one recognizer is ever built and the global is
\* never replaced or reset.
C14_LoadedBeforeAnyRequest ==
    /\ OneRecognizerKept
    /\ (ModelFilesFound /\ started) => recognizer # None

\* C14 as amended: the weights are loaded by the first request that reaches
\* get_recognizer, not before; at most one recognizer is ever built, every
\* request past get_recognizer finds that one, and the global is never replaced
\* or reset.
C14_LoadedByFirstRequest ==
    /\ OneRecognizerKept
    /\ recognizer # None => \E r \in DOMAIN requests : PastGetRecognizer(r)
    /\ \A r \in DOMAIN requests :
          (ModelFilesFound /\ PastGetRecognizer(r)) => recognizer # None

C14_Witness ==
    /\ Len(requests) = 2
    /\ requests[1].stage = "INSERTING"
    /\ requests[2].stage = "PROCESSING"
    /\ calls = 2
    /\ constructed = 1
    /\ recognizer = LicensePlateRecognizer(Path(".", LP_MODEL_FILE),
                                           Path(".", OCR_MODEL_FILE), 1)

C21_AnnotationDrawsOnCopy ==
    ReturnedFrom("create_annotated_crop") =>
        LET crop == pixels(ret.before, ret.lp_crop)
        IN  /\ ret.val.kind = "array"
            /\ ret.val.buf \notin 1..Len(ret.before)
            /\ \A b \in 1..Len(ret.before) : ret.after[b] = ret.before[b]
            /\ pixels(ret.after, ret.image) = arg.image
            /\ pixels(ret.after, ret.lp_crop) = crop
            /\ pixels(ret.after, ret.val) = create_annotated_crop(crop, arg.detections)
            /\ pixels(ret.after, ret.val).h = 640
            /\ pixels(ret.after, ret.val).w = 640
            /\ Len(arg.detections) = 0 =>
                  pixels(ret.after, ret.val) = NdArray(640, 640, crop.region, <<>>)

C21_Witness ==
    /\ ReturnedFrom("create_annotated_crop")
    /\ Len(arg.detections) = 2
    /\ arg.box = <<15, 10, 55, 40>>
    /\ Len(pixels(ret.after, ret.val).drawn) = 4
    /\ pixels(ret.after, ret.lp_crop).drawn = <<>>
    /\ pixels(ret.after, ret.lp_crop).region = <<1, 1, 5, 4>>
    /\ pixels(ret.after, ret.image).drawn = <<>>

\* every confidence the OCR model gave lies in [0, 1] (hundredths)
ConfidencesInUnitInterval(detections) ==
    \A i \in 1..Len(detections) :
        detections[i].confidence >= 0 /\ detections[i].confidence <= 100

\* C22: with per-detection confidences in [0, 1], the test confidence < 0 of
\* process_image_array is true exactly when the OCR count is outside {6, 7}: a
\* set of 6 or 7 is never returned as a failure, any other set never as a
\* success.
C22_SentinelTestIsCountGate ==
    /\ pc = "RECOGNIZED" =>
          /\ ConfidencesInUnitInterval(RawOcrDetections)
          /\ FloatLess(confidence, Float(0, 1)) <=> Len(RawOcrDetections) \notin {6, 7}
    /\ OcrRan =>
          /\ result.success <=> Len(ocr_detections) \in {6, 7}
          /\ ~result.success =>
                result.error =
                    Str("Could not recognize valid license plate (need 6-7 characters)")

C22_Witness ==
    /\ OcrRan
    /\ Len(ocr_detections) = 6
    /\ \A i \in 1..6 : ocr_detections[i].confidence = 0
    /\ confidence = Float(0, 1)
    /\ result.success
    /\ result.error = None

\* C23: the confidence of every result process_image_array returns is at least
\* 0: exactly 0.0 when success is false (image None, no plate, invalid count),
\* within [0, 1] when success is true; the -1.0 of recognize_characters stays
\* inside the call.
C23_SentinelStaysInside ==
    pc = "DONE" =>
        /\ ~FloatLess(result.confidence, Float(0, 1))
        /\ ~FloatLess(Float(1, 1), result.confidence)
        /\ ~result.success => result.confidence = Float(0, 1)

C23_Witness ==
    /\ pc = "DONE"
    /\ InvalidCharacterCountCase
    /\ confidence = Float(-1, 1)
    /\ result.confidence = Float(0, 1)
    /\ result.success = FALSE
    /\ Len(ocr_detections) = 4

\* the path given to process_image of src/lpr_detector.py
ImagePath == "car.jpg"

\* the call of process_image_array of src/api/lpr_service.py is over
CallOver == pc \in {"DONE", "RAISED"}

\* C24: on the same image and the same answers of the two models,
\* process_image_array of src/lpr_detector.py ends as process_image_array of
\* src/api/lpr_service.py does: the same success, plate_text, confidence, error
\* and annotated image, or the same exception; and process_image of
\* src/lpr_detector.py does too, except that an image that cannot be loaded
\* gives the error "Could not load image: <path>" in place of "Invalid image".
C24_DetectorCopyAgrees ==
    CallOver =>
        LET other == lpr_detector_process_image_array(lp_model, ocr_model, image)
            by_path == lpr_detector_process_image(lp_model, ocr_model, ImagePath, image)
        IN  /\ IF pc = "RAISED" THEN other = exc
               ELSE /\ other.kind = "returned"
                    /\ other.val.success = result.success
                    /\ other.val.plate_text = result.plate_text
                    /\ other.val.confidence = result.confidence
                    /\ other.val.error = result.error
                    /\ other.val.annotated_crop = result.annotated_crop
            /\ IF image = None
               THEN /\ by_path.kind = "returned"
                    /\ by_path.val = [result EXCEPT
                                        !.error = Str("Could not load image: car.jpg")]
                    /\ result.error = Str("Invalid image")
               ELSE by_path = other

C24_Witness ==
    /\ pc = "DONE"
    /\ ocr_calls = 1
    /\ result.success
    /\ Len(ocr_detections) = 7
    /\ ocr_detections[1].class_name # ocr_detections[2].class_name
    /\ lpr_detector_process_image_array(lp_model, ocr_model, image).val.plate_text
          = result.plate_text

\* the pipeline result recognize_plate got for request r has success = True
RecognitionSucceeded(r) ==
    IF requests[r].result = None THEN FALSE ELSE requests[r].result.success

\* insert_detection has been called for request r and has returned without raising
InsertReturned(r) ==
    /\ requests[r].inserts = 1
    /\ requests[r].stage = "RESPONDED"
    /\ requests[r].caught = None

\* C25: in recognize_plate persistence follows recognition success only: for
\* each request the car image and the plate image are uploaded at most once
\* each and insert_detection is called at most once, and only when the pipeline
\* result has success = True; on a decode failure, on no plate found and on an
\* invalid character count nothing is uploaded or inserted; and a response with
\* success = True is given only after insert_detection returned without raising.
C25_PersistenceFollowsSuccess ==
    \A r \in DOMAIN requests :
        LET q == requests[r]
        IN  /\ q.uploads \in {<<>>, <<"lpr/cars">>, <<"lpr/cars", "lpr/plates">>}
            /\ q.inserts \in {0, 1}
            /\ (q.uploads # <<>> \/ q.inserts > 0) => RecognitionSucceeded(r)
            /\ (q.stage = "RESPONDED" /\ ~RecognitionSucceeded(r)) =>
                  /\ q.uploads = <<>>
                  /\ q.inserts = 0
                  /\ q.response.success = FALSE
            /\ (q.response # None /\ q.response.error
                    \in {Str("Could not decode image"),
                         Str("No license plate detected in the image"),
                         Str("Could not recognize valid license plate (need 6-7 characters)")}) =>
                  /\ q.uploads = <<>>
                  /\ q.inserts = 0
            /\ (IF q.response = None THEN FALSE ELSE q.response.success) =>
                  /\ RecognitionSucceeded(r)
                  /\ InsertReturned(r)

C25_Witness ==
    /\ Len(requests) = 2
    /\ requests[1].response = FailureResponse(Str("Could not decode image"))
    /\ requests[1].uploads = <<>>
    /\ requests[1].inserts = 0
    /\ requests[2].stage = "RESPONDED"
    /\ requests[2].response.success
    /\ requests[2].uploads = <<"lpr/cars", "lpr/plates">>
    /\ InsertReturned(2)


====
